---- MODULE Spec2Model ----
(***************************************************************************)
(* Model of src/modules/speechsw.c, the Speech Dispatcher output module    *)
(* for SpeechSwitch engines: the voice catalog, the engine session, the    *)
(* speak thread and the audio callback.                                    *)
(*                                                                         *)
(* C strings are sequences of one-character strings.  A pointer that may   *)
(* be NULL is a sequence of length 0 (NULL) or 1 (the value pointed to).   *)
(***************************************************************************)
EXTENDS Integers, Sequences, FiniteSets, TLC

VARIABLES
    phase,                      \* host life cycle: unloaded, loaded, ready, failed, closed, crashed
    build,                      \* evaluation order the compiler chose in capitalizeLocale, seen at module_load
    prov,                       \* what the SpeechSwitch library reported during module_load
    sw_engine,                  \* static swEngine sw_engine
    sw_sample_rate,             \* static uint32_t sw_sample_rate
    sw_engine_name,             \* static char *sw_engine_name
    sw_voice_name,              \* static char *sw_voice_name
    sw_voice_list,              \* static SPDVoice **sw_voice_list
    sw_num_voices,              \* static uint32_t sw_num_voices
    sw_cancel,                  \* static volatile bool sw_cancel
    sw_engines,                 \* static char **sw_engines
    sw_num_engines,             \* uint32_t sw_num_engines
    sw_speaking,                \* static bool sw_speaking
    sw_speak_thread,            \* static pthread_t sw_speak_thread
    sw_speak_bytes,             \* static size_t sw_speak_bytes
    sw_speak_msgtype,           \* static SPDMessageType sw_speak_msgtype
    msg_settings_old_voice_name,\* msg_settings_old.voice.name
    msg_settings_old_rate,      \* msg_settings_old.rate
    msg_settings_old_pitch,     \* msg_settings_old.pitch
    msg_settings_old_punctuation_mode, \* msg_settings_old.punctuation_mode
    msg_settings_rate,          \* msg_settings.rate, the rate the host asks for
    msg_settings_pitch,         \* msg_settings.pitch
    msg_settings_punctuation_mode, \* msg_settings.punctuation_mode
    fg_pc,                      \* position of the foreground (host) thread
    thr,                        \* the speak threads created so far
    n_speak,                    \* module_speak calls made
    q_stop_requested,           \* host playback queue: a stop request is pending
    live,                       \* engine handles started and not yet stopped
    max_live,                   \* most handles ever live at once
    oplog,                      \* library calls made by the last foreground handler
    init_ret,                   \* value module_init returned
    speak_ret,                  \* value the last module_speak returned
    speak_launched,             \* whether the last module_speak created a thread
    stop_mid                    \* module_stop was called during the running task

vars ==
    << phase, build, prov, sw_engine, sw_sample_rate, sw_engine_name, sw_voice_name,
       sw_voice_list, sw_num_voices, sw_cancel, sw_engines, sw_num_engines,
       sw_speaking, sw_speak_thread, sw_speak_bytes, sw_speak_msgtype,
       msg_settings_old_voice_name, msg_settings_old_rate, msg_settings_old_pitch,
       msg_settings_old_punctuation_mode, msg_settings_rate, msg_settings_pitch,
       msg_settings_punctuation_mode, fg_pc, thr,
       n_speak, q_stop_requested, live, max_live, oplog, init_ret, speak_ret,
       speak_launched, stop_mid >>

----------------------------------------------------------------------------
(* Bounds of the model. *)

\* module_speak calls in one run (also the number of thread slots).
MaxSpeaks == 2

\* audio chunks one swSpeak call delivers before it ends the stream.
MaxChunks == 1

\* voices one engine lists.
MaxVoices == 2

----------------------------------------------------------------------------
(* Program constants. *)

FATAL_ERROR == -1
OK == 0
ERROR == 1

\* FALSE of glib, the failure value of module_speak.
C_FALSE == 0

\* SPDPunctuation, the punctuation modes of the host.
SPD_PUNCT_ALL == 0
SPD_PUNCT_NONE == 1
SPD_PUNCT_SOME == 2
SPD_PUNCT_MOST == 3

\* swPunctuationLevel, the punctuation levels of the library.
SW_PUNCT_NONE == 0
SW_PUNCT_SOME == 1
SW_PUNCT_MOST == 2
SW_PUNCT_ALL == 3

\* The values CLEAN_OLD_SETTINGS_TABLE gives msg_settings_old: a number no
\* setting of the host equals, and an enumerator no mode equals.
OLD_NUMBER_UNSET == -101
OLD_MODE_UNSET == -1

NULL == << >>

Some(x) == << x >>

Deref(p) == p[1]

----------------------------------------------------------------------------
(* C string functions. *)

\* strchr: index of the first c in s, 0 when there is none.
strchr(s, c) ==
    IF \E i \in 1..Len(s) : s[i] = c
    THEN CHOOSE i \in 1..Len(s) : s[i] = c /\ \A j \in 1..(i-1) : s[j] # c
    ELSE 0

\* strrchr: index of the last c in s, 0 when there is none.
strrchr(s, c) ==
    IF \E i \in 1..Len(s) : s[i] = c
    THEN CHOOSE i \in 1..Len(s) : s[i] = c /\ \A j \in (i+1)..Len(s) : s[j] # c
    ELSE 0

Lower ==
    << "a","b","c","d","e","f","g","h","i","j","k","l","m",
       "n","o","p","q","r","s","t","u","v","w","x","y","z" >>

Upper ==
    << "A","B","C","D","E","F","G","H","I","J","K","L","M",
       "N","O","P","Q","R","S","T","U","V","W","X","Y","Z" >>

toupper(c) ==
    IF \E i \in 1..26 : Lower[i] = c
    THEN Upper[CHOOSE i \in 1..26 : Lower[i] = c]
    ELSE c

\* capitalizeLocale.  The statement  *p++ = toupper(*p)  reads p and
\* increments it without sequencing.  A build that evaluates the right side
\* first upper-cases from the '-' on in place; a build that increments first
\* stores the upper-cased NEXT character, which drops the '-' and ends the
\* string one character early.
capitalizeLocale(language, b) ==
    LET d == strchr(language, "-")
        n == Len(language)
    IN  IF d = 0 THEN language
        ELSE IF b = "rhs_first"
        THEN [k \in 1..n |-> IF k < d THEN language[k] ELSE toupper(language[k])]
        ELSE [k \in 1..(n-1) |-> IF k < d THEN language[k] ELSE toupper(language[k+1])]

----------------------------------------------------------------------------
(* The SpeechSwitch library and the engines it finds, as far as the module  *)
(* depends on them.                                                         *)

espeak == << "e","s","p","e","a","k" >>

pico == << "p","i","c","o" >>

Providers == { espeak, pico }

\* swGetSampleRate: the rate the started engine reports.
swGetSampleRate(engine_name) == IF engine_name = espeak THEN 22050 ELSE 16000

\* Voice ids an engine may list, each "<name>,<language>".
id_A_en_us == << "A", ",", "e","n","-","u","s" >>

id_A_fr == << "A", ",", "f","r" >>

id_B_c_en_gb == << "B"," ","c", ",", "e","n","-","g","b" >>

VoiceIds == { id_A_en_us, id_A_fr, id_B_c_en_gb }

RECURSIVE SeqsUpTo(_, _)
SeqsUpTo(S, n) ==
    IF n = 0 THEN { << >> }
    ELSE LET shorter == SeqsUpTo(S, n - 1)
         IN  shorter \cup { Append(q, x) : q \in shorter, x \in S }

\* swListEngines results: the engine directories found, in discovery order.
EngineLists == { << >>, << espeak >>, << pico >>, << espeak, pico >>, << pico, espeak >> }

\* The two orders in which a build may evaluate  *p++ = toupper(*p).
Builds == { "rhs_first", "lhs_first" }

\* Every report of the library during module_load: the engine list, the
\* engines that start in listing mode, and the voices each one lists.
AllReports ==
    [ engines : EngineLists,
      ok      : SUBSET Providers,
      voices  : [ Providers -> SeqsUpTo(VoiceIds, MaxVoices) ] ]

id_B_c_en == << "B"," ","c", ",", "e","n" >>

\* The reports used with the speak thread: no engine, or two engines with
\* one voice each, of which both or none start for the listing.  The
\* languages have no region, so the descriptors are the same under every
\* build.
TwoEngineVoices ==
    [ p \in Providers |-> IF p = espeak THEN << id_A_fr >> ELSE << id_B_c_en >> ]

FewReports ==
    { [ engines |-> << >>, ok |-> Providers, voices |-> TwoEngineVoices ],
      [ engines |-> << pico, espeak >>, ok |-> Providers, voices |-> TwoEngineVoices ],
      [ engines |-> << pico, espeak >>, ok |-> { }, voices |-> TwoEngineVoices ] }

----------------------------------------------------------------------------
(* The engine session.  The handlers are operators on a record S holding    *)
(* the session globals and the library calls made so far:                   *)
(*   engine, engine_name, voice_name, sample_rate  the sw_* globals         *)
(*   old_voice, old_rate, old_pitch, old_punctuation_mode                   *)
(*               msg_settings_old.voice.name, .rate, .pitch,                *)
(*               .punctuation_mode                                          *)
(*   live, max_live, log   handles live, the most live at once, the calls   *)
(*   crashed     the process dereferenced NULL                              *)

LogCall(S, o, h, a, r) ==
    [ S EXCEPT !.log = Append(@, [ op |-> o, eng |-> h, arg |-> a, ok |-> r ]) ]

\* swStop(engine): the handle is released.
swStop(S, h) == [ LogCall(S, "swStop", h, << >>, TRUE) EXCEPT !.live = @ - 1 ]

\* swStart(lib_dir, engine_name, ...): a new handle, or NULL.
swStart(S, engine_name, started) ==
    LET S1 == LogCall(S, "swStart", NULL, engine_name, started)
    IN  IF started
        THEN [ S1 EXCEPT !.live = @ + 1,
                         !.max_live = IF S.live + 1 > @ THEN S.live + 1 ELSE @ ]
        ELSE S1

\* stop_engine clearing the globals without swStop.
stop_engine_no_swStop(S) ==
    IF S.engine = NULL THEN S
    ELSE [ S EXCEPT !.engine = NULL, !.engine_name = NULL, !.voice_name = NULL,
                    !.sample_rate = 0 ]

\* stop_engine leaving sw_engine_name as it is.
stop_engine_keeps_name(S) ==
    IF S.engine = NULL THEN S
    ELSE [ swStop(S, S.engine) EXCEPT !.engine = NULL, !.voice_name = NULL,
                                      !.sample_rate = 0 ]

\* stop_engine, lines 99-110.
stop_engine(S) ==
    IF S.engine = NULL THEN S
    ELSE [ swStop(S, S.engine) EXCEPT !.engine = NULL,
                                      !.engine_name = NULL,
                                      !.voice_name = NULL,
                                      !.sample_rate = 0 ]

\* CLEAN_OLD_SETTINGS_TABLE, line 270, a macro of module_utils.h: no
\* setting counts as applied any more.
CLEAN_OLD_SETTINGS_TABLE(S) ==
    [ S EXCEPT !.old_voice = NULL,
               !.old_rate = OLD_NUMBER_UNSET,
               !.old_pitch = OLD_NUMBER_UNSET,
               !.old_punctuation_mode = OLD_MODE_UNSET ]

\* start_engine, lines 250-271.  CLEAN_OLD_SETTINGS_TABLE resets
\* msg_settings_old, so every parameter is applied again to the new engine.
start_engine(S, engine_name, started) ==
    IF S.engine # NULL /\ engine_name = Deref(S.engine_name) THEN S
    ELSE LET S1 == IF S.engine # NULL THEN stop_engine(S) ELSE S
             S2 == swStart(S1, engine_name, started)
         IN  IF ~started THEN [ S2 EXCEPT !.engine = NULL ]
             ELSE CLEAN_OLD_SETTINGS_TABLE(
                      [ S2 EXCEPT !.engine = Some(engine_name),
                                  !.engine_name = Some(engine_name),
                                  !.sample_rate = swGetSampleRate(engine_name) ])

\* find_voice giving the first descriptor for a name that is not in the list.
find_voice_first_on_miss(voice_list, synthesis_voice) ==
    LET end == CHOOSE k \in 1..Len(voice_list) :
                   voice_list[k] = NULL /\ \A j \in 1..(k-1) : voice_list[j] # NULL
        hits == { k \in 1..(end-1) : Deref(voice_list[k]).name = synthesis_voice }
    IN  IF hits = {} THEN (IF end > 1 THEN 1 ELSE 0)
        ELSE CHOOSE k \in hits : \A j \in hits : k <= j

\* find_voice, lines 274-282: index of the first descriptor with that name,
\* 0 for NULL.  The list ends at its first NULL entry.
find_voice(voice_list, synthesis_voice) ==
    LET end == CHOOSE k \in 1..Len(voice_list) :
                   voice_list[k] = NULL /\ \A j \in 1..(k-1) : voice_list[j] # NULL
        hits == { k \in 1..(end-1) : Deref(voice_list[k]).name = synthesis_voice }
    IN  IF hits = {} THEN 0
        ELSE CHOOSE k \in hits : \A j \in hits : k <= j

\* set_synthesis_voice, lines 288-312.  ok is the set of engines that start
\* when asked now.  Line 305 compares the voice id with sw_engine_name; with
\* sw_voice_name set and sw_engine_name NULL that strcmp reads NULL.
set_synthesis_voice(S, voice_list, synthesis_voice, ok) ==
    LET v == find_voice(voice_list, synthesis_voice)
    IN  IF v = 0 THEN S
        ELSE
        LET voice == Deref(voice_list[v])
            sp == strchr(voice.name, " ")
            engine_name == SubSeq(voice.name, 1, sp - 1)
            p == SubSeq(voice.name, sp + 1, Len(voice.name))
            voice_name == p \o << "," >> \o voice.language
            S1 == IF S.engine # NULL /\ engine_name # Deref(S.engine_name)
                  THEN stop_engine(S) ELSE S
            S2 == IF S1.engine = NULL
                  THEN start_engine(S1, engine_name, engine_name \in ok) ELSE S1
        IN  IF S2.voice_name = NULL
            THEN [ LogCall(S2, "swSetVoice", S2.engine, voice_name, TRUE)
                       EXCEPT !.voice_name = Some(voice_name) ]
            ELSE IF S2.engine_name = NULL
            THEN [ S2 EXCEPT !.crashed = TRUE ]
            ELSE IF voice_name # Deref(S2.engine_name)
            THEN [ LogCall(S2, "swSetVoice", S2.engine, voice_name, TRUE)
                       EXCEPT !.voice_name = Some(voice_name) ]
            ELSE S2

\* The for loop of set_default_engine, lines 352-357, from index i on.
RECURSIVE default_engine_loop(_, _, _, _)
default_engine_loop(S, engines, i, ok) ==
    IF i > Len(engines) THEN S
    ELSE LET S1 == start_engine(S, engines[i], engines[i] \in ok)
         IN  IF S1.engine # NULL THEN S1
             ELSE default_engine_loop(S1, engines, i + 1, ok)

\* set_default_engine, lines 342-359.  Its entry (the swLog of line 343) is
\* logged with the library calls.
set_default_engine(S, engines, num_engines, ok) ==
    LET S0 == LogCall(S, "set_default_engine", NULL, << >>, TRUE)
    IN  IF num_engines = 0 THEN S0
        ELSE LET S1 == start_engine(S0, espeak, espeak \in ok)
             IN  IF S1.engine # NULL THEN S1
                 ELSE default_engine_loop(S1, engines, 1, ok)

\* UPDATE_STRING_PARAMETER(voice.name, set_synthesis_voice), line 556, a
\* macro of module_utils.h.  When the value last applied or the host's value
\* is NULL, or the two differ, the value last applied is forgotten; then,
\* when the host's value is set, it is remembered as applied and the setter
\* runs (which forgets it again when it starts an engine, line 270).
update_voice_name(S, voice_list, requested, ok) ==
    IF S.old_voice = NULL \/ requested = NULL \/ S.old_voice # requested
    THEN IF requested # NULL
         THEN set_synthesis_voice([ S EXCEPT !.old_voice = requested ],
                                  voice_list, Deref(requested), ok)
         ELSE [ S EXCEPT !.old_voice = NULL ]
    ELSE S

----------------------------------------------------------------------------
(* The speaking rate.  A speed is kept as the exact fraction num/den in     *)
(* lowest terms; the code holds it in a float, whose rounding (below one    *)
(* part in 2^23) is far smaller than the steps between the speeds of two    *)
(* rates.                                                                   *)

\* The bounds of the assert of line 157.
MinRate == -100

MaxRate == 100

Rates == MinRate..MaxRate

RECURSIVE Gcd(_, _)
Gcd(a, b) == IF b = 0 THEN a ELSE Gcd(b, a % b)

\* The fraction n/d, d > 0, in lowest terms.
Rational(n, d) ==
    LET g == Gcd(IF n < 0 THEN -n ELSE n, d)
    IN  [ num |-> n \div g, den |-> d \div g ]

\* x < y for fractions with positive denominators.
Less(x, y) == x.num * y.den < y.num * x.den

\* speed with the quotient rate/20 taken in integers.
speed_integer_division(rate) ==
    IF rate > 0 THEN Rational(1 + rate \div 20, 1)
    ELSE IF rate < 0 THEN Rational(1, 1 + (-rate) \div 20)
    ELSE Rational(1, 1)

\* The speed set_rate computes, lines 158-165: 1 + rate/20 for rate > 0,
\* 1/(1 - rate/20) for rate < 0, else 1.
speed(rate) ==
    IF rate > 0 THEN Rational(20 + rate, 20)
    ELSE IF rate < 0 THEN Rational(20, 20 - rate)
    ELSE Rational(1, 1)

\* set_rate, lines 151-171.  A rate outside the bounds fails the assert.
set_rate(S, rate) ==
    IF S.engine = NULL THEN S
    ELSE IF rate < MinRate \/ rate > MaxRate THEN [ S EXCEPT !.crashed = TRUE ]
    ELSE LogCall(S, "swSetSpeed", S.engine, speed(rate), TRUE)

\* UPDATE_PARAMETER(rate, set_rate), line 567, a macro of module_utils.h:
\* a value that differs from the one last applied is remembered as applied
\* and the setter runs.
update_rate(S, rate) ==
    IF S.old_rate # rate THEN set_rate([ S EXCEPT !.old_rate = rate ], rate) ELSE S

\* The bounds of the assert of line 184.
MinPitch == -100

MaxPitch == 100

\* The relative pitch set_pitch computes, lines 185-192: 1 + pitch/50 for
\* pitch > 0, 1/(1 - pitch/50) for pitch < 0, else 1.
rel_pitch(pitch) ==
    IF pitch > 0 THEN Rational(50 + pitch, 50)
    ELSE IF pitch < 0 THEN Rational(50, 50 - pitch)
    ELSE Rational(1, 1)

\* set_pitch, lines 178-198.  A pitch outside the bounds fails the assert.
set_pitch(S, pitch) ==
    IF S.engine = NULL THEN S
    ELSE IF pitch < MinPitch \/ pitch > MaxPitch THEN [ S EXCEPT !.crashed = TRUE ]
    ELSE LogCall(S, "swSetPitch", S.engine, rel_pitch(pitch), TRUE)

\* UPDATE_PARAMETER(pitch, set_pitch), line 569.
update_pitch(S, pitch) ==
    IF S.old_pitch # pitch THEN set_pitch([ S EXCEPT !.old_pitch = pitch ], pitch) ELSE S

\* The level set_punctuation_mode passes for a mode, lines 211-225; a
\* value that is no mode leaves the level at SW_PUNCT_SOME.
sw_punct_mode(punct_mode) ==
    IF punct_mode = SPD_PUNCT_ALL THEN SW_PUNCT_ALL
    ELSE IF punct_mode = SPD_PUNCT_MOST THEN SW_PUNCT_MOST
    ELSE IF punct_mode = SPD_PUNCT_SOME THEN SW_PUNCT_SOME
    ELSE IF punct_mode = SPD_PUNCT_NONE THEN SW_PUNCT_NONE
    ELSE SW_PUNCT_SOME

\* set_punctuation_mode, lines 205-231.
set_punctuation_mode(S, punct_mode) ==
    IF S.engine = NULL THEN S
    ELSE LogCall(S, "swSetPunctuation", S.engine, sw_punct_mode(punct_mode), TRUE)

\* UPDATE_PARAMETER(punctuation_mode, set_punctuation_mode), line 571.
update_punctuation_mode(S, punct_mode) ==
    IF S.old_punctuation_mode # punct_mode
    THEN set_punctuation_mode([ S EXCEPT !.old_punctuation_mode = punct_mode ], punct_mode)
    ELSE S

\* module_speak, lines 565-572: the parameters of the message are applied
\* to the engine.  set_language, set_voice, set_volume, set_pitch_range and
\* set_cap_let_recogn (lines 173-176, 200-203, 233-247) only write to the
\* log file.  A failed assert ends the process at once.
update_parameters(S, settings) ==
    LET S1 == update_rate(S, settings.rate)
        S2 == IF S1.crashed THEN S1 ELSE update_pitch(S1, settings.pitch)
    IN  IF S2.crashed THEN S2
        ELSE update_punctuation_mode(S2, settings.punctuation_mode)

----------------------------------------------------------------------------
(* The voice catalog. *)

\* VoiceDescriptor with the engine name left out of the composite name.
VoiceDescriptor_no_engine(engine_name, voice_id, b) ==
    LET c == strrchr(voice_id, ",")
    IN  [ name     |-> SubSeq(voice_id, 1, c - 1),
          language |-> capitalizeLocale(SubSeq(voice_id, c + 1, Len(voice_id)), b),
          variant  |-> "null" ]

\* The descriptor built for one listed voice, lines 393-400.
VoiceDescriptor(engine_name, voice_id, b) ==
    LET c == strrchr(voice_id, ",")
    IN  [ name     |-> engine_name \o << " " >> \o SubSeq(voice_id, 1, c - 1),
          language |-> capitalizeLocale(SubSeq(voice_id, c + 1, Len(voice_id)), b),
          variant  |-> "null" ]

RECURSIVE list_engines_loop_abort(_, _, _, _)
RECURSIVE list_engines_loop(_, _, _, _)

\* list_engines_loop leaving the loop at the first engine that fails to start.
list_engines_loop_abort(C, report, i, b) ==
    IF i > Len(report.engines) THEN C
    ELSE
    LET engine_name == report.engines[i]
        started == engine_name \in report.ok
        voices == report.voices[engine_name]
        C1 == swStart(C, engine_name, started)
        C2 == [ C1 EXCEPT !.list = @ \o [ j \in 1..Len(voices) |->
                                   Some(VoiceDescriptor(engine_name, voices[j], b)) ],
                          !.num = @ + Len(voices) ]
    IN  IF started
        THEN list_engines_loop_abort(swStop(C2, Some(engine_name)), report, i + 1, b)
        ELSE C1

\* The loop over engines of find_all_synthesis_voices, lines 384-410, from
\* index i on.  C is the record of the list built and the library calls made.
list_engines_loop(C, report, i, b) ==
    IF i > Len(report.engines) THEN C
    ELSE
    LET engine_name == report.engines[i]
        started == engine_name \in report.ok
        voices == report.voices[engine_name]
        C1 == swStart(C, engine_name, started)
        C2 == [ C1 EXCEPT !.list = @ \o [ j \in 1..Len(voices) |->
                                   Some(VoiceDescriptor(engine_name, voices[j], b)) ],
                          !.num = @ + Len(voices) ]
    IN  list_engines_loop(IF started THEN swStop(C2, Some(engine_name)) ELSE C1,
                          report, i + 1, b)

\* find_all_synthesis_voices, lines 378-421: the list ends with a NULL entry,
\* which sw_num_voices counts too.
find_all_synthesis_voices(C, report, b) ==
    LET C1 == list_engines_loop([ C EXCEPT !.list = << >>, !.num = 0 ], report, 1, b)
    IN  [ C1 EXCEPT !.list = Append(@, NULL), !.num = @ + 1 ]

----------------------------------------------------------------------------
(* State. *)

\* One audio_callback invocation:
\*   num, cancel             its arguments num_samples and cancel
\*   saw_cancel, saw_stop    what it read of sw_cancel (line 116) and of
\*                           module_speak_queue_stop_requested (line 121)
\*   q                       its calls of the host queue, in order
\*   frames, track           frames the queue accepted, the track offered
\*   set_cancel              whether it wrote sw_cancel
\*   ret, done               what it returned, once it has returned
\*   after_stop, first_after it began after a module_stop issued during
\*                           this task, and it is the first that did
CbNone ==
    [ num |-> 0, cancel |-> FALSE, saw_cancel |-> FALSE, saw_stop |-> FALSE,
      q |-> << >>, frames |-> 0, track |-> NULL, set_cancel |-> FALSE,
      ret |-> FALSE, done |-> FALSE, after_stop |-> FALSE, first_after |-> FALSE ]

ThreadNone == [ pc |-> "none", chunks |-> 0, cb |-> CbNone ]

Threads == 1..MaxSpeaks

\* A speak thread that was created and has not left speak_wrapper.
Running(t) == thr[t].pc \notin { "none", "exited", "joined" }

TaskRunning == \E t \in Threads : Running(t)

\* The session globals as the record the handlers work on.
Sess ==
    [ engine |-> sw_engine, engine_name |-> sw_engine_name,
      voice_name |-> sw_voice_name, sample_rate |-> sw_sample_rate,
      old_voice |-> msg_settings_old_voice_name,
      old_rate |-> msg_settings_old_rate,
      old_pitch |-> msg_settings_old_pitch,
      old_punctuation_mode |-> msg_settings_old_punctuation_mode,
      live |-> live, max_live |-> max_live, log |-> << >>, crashed |-> FALSE ]

SetSess(S) ==
    /\ sw_engine' = S.engine
    /\ sw_engine_name' = S.engine_name
    /\ sw_voice_name' = S.voice_name
    /\ sw_sample_rate' = S.sample_rate
    /\ msg_settings_old_voice_name' = S.old_voice
    /\ msg_settings_old_rate' = S.old_rate
    /\ msg_settings_old_pitch' = S.old_pitch
    /\ msg_settings_old_punctuation_mode' = S.old_punctuation_mode
    /\ live' = S.live
    /\ max_live' = S.max_live
    /\ oplog' = S.log

\* msg_settings, the settings of the host for the next message.
settingsVars == << msg_settings_rate, msg_settings_pitch, msg_settings_punctuation_mode >>

\* msg_settings as the record the handlers work on.
msg_settings ==
    [ rate |-> msg_settings_rate, pitch |-> msg_settings_pitch,
      punctuation_mode |-> msg_settings_punctuation_mode ]

\* msg_settings_old, the settings last applied.
oldVars ==
    << msg_settings_old_voice_name, msg_settings_old_rate, msg_settings_old_pitch,
       msg_settings_old_punctuation_mode >>

sessVars ==
    << sw_engine, sw_engine_name, sw_voice_name, sw_sample_rate,
       oldVars, live, max_live, oplog >>

catVars == << prov, sw_voice_list, sw_num_voices, sw_engines, sw_num_engines >>

speakVars ==
    << sw_speaking, sw_speak_thread, sw_speak_bytes, sw_speak_msgtype,
       n_speak, speak_ret, speak_launched >>

Init ==
    /\ phase = "unloaded"
    /\ build = "unset"
    /\ prov = NULL
    /\ sw_engine = NULL
    /\ sw_sample_rate = 0
    /\ sw_engine_name = NULL
    /\ sw_voice_name = NULL
    /\ sw_voice_list = NULL
    /\ sw_num_voices = 0
    /\ sw_cancel = FALSE
    /\ sw_engines = << >>
    /\ sw_num_engines = 0
    /\ sw_speaking = FALSE
    /\ sw_speak_thread = 0
    /\ sw_speak_bytes = 0
    /\ sw_speak_msgtype = "TEXT"
    /\ msg_settings_old_voice_name = NULL
    /\ msg_settings_old_rate = 0
    /\ msg_settings_old_pitch = 0
    /\ msg_settings_old_punctuation_mode = 0
    /\ msg_settings_rate = 0
    /\ msg_settings_pitch = 0
    /\ msg_settings_punctuation_mode = 0
    /\ fg_pc = "idle"
    /\ thr = [ t \in Threads |-> ThreadNone ]
    /\ n_speak = 0
    /\ q_stop_requested = FALSE
    /\ live = 0
    /\ max_live = 0
    /\ oplog = << >>
    /\ init_ret = OK
    /\ speak_ret = C_FALSE
    /\ speak_launched = FALSE
    /\ stop_mid = "no"

----------------------------------------------------------------------------
(* Loading and initialisation. *)

\* module_load, lines 424-447: the catalog is built from what the library
\* reports (one of reports), by a build that is one of builds, and
\* INIT_SETTINGS_TABLES (line 428) gives the settings their defaults.
module_load(reports, builds) ==
    /\ phase = "unloaded"
    /\ \E r \in reports, b \in builds :
         LET C == find_all_synthesis_voices(
                      [ list |-> << >>, num |-> 0, live |-> live,
                        max_live |-> max_live, log |-> << >> ], r, b)
         IN  /\ prov' = Some(r)
             /\ build' = b
             /\ sw_engines' = r.engines
             /\ sw_num_engines' = Len(r.engines)
             /\ sw_voice_list' = C.list
             /\ sw_num_voices' = C.num
             /\ live' = C.live
             /\ max_live' = C.max_live
             /\ oplog' = C.log
    /\ msg_settings_rate' = 0
    /\ msg_settings_pitch' = 0
    /\ msg_settings_punctuation_mode' = SPD_PUNCT_NONE
    /\ msg_settings_old_voice_name' = NULL
    /\ msg_settings_old_rate' = OLD_NUMBER_UNSET
    /\ msg_settings_old_pitch' = OLD_NUMBER_UNSET
    /\ msg_settings_old_punctuation_mode' = OLD_MODE_UNSET
    /\ phase' = "loaded"
    /\ UNCHANGED << sw_engine, sw_engine_name, sw_voice_name, sw_sample_rate,
                    sw_cancel, speakVars, fg_pc, thr, q_stop_requested, init_ret,
                    stop_mid >>

\* The number of descriptors in a voice list, its NULL end marker not counted.
NumDescriptors(voice_list) == Len(voice_list) - 1

\* The value module_init returns, lines 456-467; queue_ret is what
\* module_speak_queue_init returns.
module_init_result(num_voices, queue_ret) ==
    IF num_voices = 0 THEN FATAL_ERROR
    ELSE IF queue_ret # OK THEN queue_ret
    ELSE OK

\* module_init, lines 449-468.
module_init ==
    /\ phase = "loaded"
    /\ \E queue_ret \in { OK, FATAL_ERROR } :
         init_ret' = module_init_result(sw_num_voices, queue_ret)
    /\ phase' = IF init_ret' = OK THEN "ready" ELSE "failed"
    /\ UNCHANGED << build, settingsVars, catVars, sessVars, sw_cancel, speakVars, fg_pc, thr,
                    q_stop_requested, stop_mid >>

NextCatalog ==
    \/ module_load(AllReports, Builds)
    \/ module_init

SpecCatalog == Init /\ [][NextCatalog]_vars

----------------------------------------------------------------------------
(* The rate alone: module_speak at line 567, UPDATE_PARAMETER(rate,         *)
(* set_rate), with the session as lines 556-563 can have left it and any    *)
(* rate the host may ask for.                                               *)

\* The session before any engine was started.
Sess0 ==
    [ engine |-> NULL, engine_name |-> NULL, voice_name |-> NULL, sample_rate |-> 0,
      old_voice |-> NULL, old_rate |-> OLD_NUMBER_UNSET,
      old_pitch |-> OLD_NUMBER_UNSET, old_punctuation_mode |-> OLD_MODE_UNSET,
      live |-> 0, max_live |-> 1, log |-> << >>, crashed |-> FALSE ]

\* Sessions module_speak can be in at line 567: an engine is active, since
\* with none lines 559-562 have returned FALSE.
RateSessions ==
    { [ start_engine(Sess0, e, TRUE) EXCEPT !.log = << >> ] : e \in Providers }

InitRate ==
    /\ phase = "ready"
    /\ build = "rhs_first"
    /\ \E r \in { x \in FewReports : x.engines # << >> } :
         LET C == find_all_synthesis_voices(
                      [ list |-> << >>, num |-> 0, live |-> 0,
                        max_live |-> 0, log |-> << >> ], r, "rhs_first")
         IN  /\ prov = Some(r)
             /\ sw_engines = r.engines
             /\ sw_num_engines = Len(r.engines)
             /\ sw_voice_list = C.list
             /\ sw_num_voices = C.num
    /\ \E S \in RateSessions :
         /\ sw_engine = S.engine
         /\ sw_engine_name = S.engine_name
         /\ sw_voice_name = S.voice_name
         /\ sw_sample_rate = S.sample_rate
         /\ live = S.live
         /\ max_live = S.max_live
    /\ msg_settings_rate \in Rates
    /\ msg_settings_pitch = 0
    /\ msg_settings_punctuation_mode = SPD_PUNCT_NONE
    /\ msg_settings_old_voice_name = NULL
    /\ msg_settings_old_rate = OLD_NUMBER_UNSET
    /\ msg_settings_old_pitch = OLD_NUMBER_UNSET
    /\ msg_settings_old_punctuation_mode = OLD_MODE_UNSET
    /\ oplog = << >>
    /\ sw_cancel = FALSE
    /\ sw_speaking = FALSE
    /\ sw_speak_thread = 0
    /\ sw_speak_bytes = 0
    /\ sw_speak_msgtype = "TEXT"
    /\ fg_pc = "line567"
    /\ thr = [ t \in Threads |-> ThreadNone ]
    /\ n_speak = 1
    /\ q_stop_requested = FALSE
    /\ init_ret = OK
    /\ speak_ret = C_FALSE
    /\ speak_launched = FALSE
    /\ stop_mid = "no"

\* module_speak, line 567: UPDATE_PARAMETER(rate, set_rate) with no rate
\* applied yet.
module_speak_set_rate ==
    /\ phase = "ready"
    /\ fg_pc = "line567"
    /\ \E S \in { update_rate(Sess, msg_settings_rate) } :
         /\ SetSess(S)
         /\ phase' = IF S.crashed THEN "crashed" ELSE phase
    /\ fg_pc' = "line568"
    /\ UNCHANGED << build, settingsVars, catVars, sw_cancel, speakVars, thr,
                    q_stop_requested, init_ret, stop_mid >>

NextRate == module_speak_set_rate

SpecRate == InitRate /\ [][NextRate]_vars

----------------------------------------------------------------------------
(* The foreground: the host's calls once module_init has returned OK.  The  *)
(* host makes them one at a time.                                           *)

Foreground == phase = "ready" /\ fg_pc = "idle"

name_espeak_A == espeak \o << " ", "A" >>

name_pico_B_c == pico \o << " ", "B", " ", "c" >>

name_unknown == << "n", "o" >>

\* Values of msg_settings.voice.name the host may have set before a speak.
VoiceRequests == { NULL, Some(name_espeak_A), Some(name_pico_B_c), Some(name_unknown) }

\* The values INIT_SETTINGS_TABLES gives msg_settings.rate, .pitch and
\* .punctuation_mode.
DefaultSettings == [ rate |-> 0, pitch |-> 0, punctuation_mode |-> SPD_PUNCT_NONE ]

\* Values the host may have set before a speak: the defaults, or faster
\* speech at a lower pitch with all punctuation spoken.
HostSettings ==
    { DefaultSettings,
      [ rate |-> 40, pitch |-> -50, punctuation_mode |-> SPD_PUNCT_ALL ] }

\* Lengths of the text handed to module_speak.
TextBytes == { 0, 2 }

\* Message types the host sends: two that are synthesized (by swSpeak and by
\* swSpeakChar) and one that is not.
MsgTypes == { "TEXT", "CHAR", "SOUND_ICON" }

\* module_speak, lines 549-550: the host has set the settings of the
\* message (one of settings), the call begins and
\* module_speak_queue_before_synth starts a new utterance in the host queue.
module_speak_begin(settings) ==
    /\ Foreground
    /\ n_speak < MaxSpeaks
    /\ \E s \in settings :
         /\ msg_settings_rate' = s.rate
         /\ msg_settings_pitch' = s.pitch
         /\ msg_settings_punctuation_mode' = s.punctuation_mode
    /\ n_speak' = n_speak + 1
    /\ q_stop_requested' = FALSE
    /\ fg_pc' = "module_speak_join"
    /\ oplog' = << >>
    /\ UNCHANGED << phase, build, catVars, sw_engine, sw_engine_name, sw_voice_name,
                    sw_sample_rate, oldVars, live, max_live,
                    sw_cancel, sw_speaking,
                    sw_speak_thread, sw_speak_bytes, sw_speak_msgtype, thr,
                    init_ret, speak_ret, speak_launched, stop_mid >>

\* module_speak without lines 551-554: the previous thread is not joined.
module_speak_no_join ==
    [ enabled |-> TRUE, thr |-> thr, speaking |-> FALSE ]

\* module_speak, lines 551-554: pthread_join returns once the thread last
\* created has left speak_wrapper.
module_speak_join ==
    [ enabled  |-> sw_speaking => thr[sw_speak_thread].pc = "exited",
      thr      |-> IF sw_speaking
                   THEN [ thr EXCEPT ![sw_speak_thread] = [ ThreadNone EXCEPT !.pc = "joined" ] ]
                   ELSE thr,
      speaking |-> FALSE ]

\* The thread slot pthread_create fills.
NewThread(T) == CHOOSE t \in Threads : T[t].pc = "none" /\ \A u \in 1..(t-1) : T[u].pc # "none"

\* The value module_speak returns, lines 559-582.
module_speak_result(engine, created, bytes) ==
    IF engine = NULL THEN C_FALSE
    ELSE IF ~created THEN C_FALSE
    ELSE bytes

\* module_speak(data, bytes, msgtype), lines 551-583.  requested is the
\* value of msg_settings.voice.name the host has set for this message and
\* ok the set of engines that start when asked now; bytes and msgtype are
\* the arguments, created is whether pthread_create succeeds.
module_speak_rest(requested, ok) ==
    /\ phase = "ready"
    /\ fg_pc = "module_speak_join"
    /\ module_speak_join.enabled
    /\ \E J \in { module_speak_join },
          S1 \in { update_voice_name(Sess, sw_voice_list, requested, ok) } :
       \E S3 \in { IF S1.engine = NULL /\ ~S1.crashed
                    THEN set_default_engine(S1, sw_engines, sw_num_engines, ok)
                    ELSE S1 } :
       \E S2 \in { IF S3.engine # NULL /\ ~S3.crashed
                    THEN update_parameters(S3, msg_settings)
                    ELSE S3 },
          t \in { NewThread(J.thr) } :
           /\ SetSess(S2)
           /\ phase' = IF S2.crashed THEN "crashed" ELSE phase
           /\ IF S2.crashed \/ S2.engine = NULL
              THEN \* the process has ended, or line 561 returns FALSE: the
                   \* arguments are not looked at
                   /\ thr' = J.thr
                   /\ sw_speaking' = J.speaking
                   /\ speak_launched' = FALSE
                   /\ speak_ret' = IF S2.crashed THEN speak_ret ELSE C_FALSE
                   /\ UNCHANGED << sw_speak_bytes, sw_speak_msgtype, sw_speak_thread,
                                   stop_mid >>
              ELSE \E bytes \in TextBytes, msgtype \in MsgTypes, created \in BOOLEAN :
                   /\ sw_speak_bytes' = bytes
                   /\ sw_speak_msgtype' = msgtype
                   /\ IF created
                      THEN /\ thr' = [ J.thr EXCEPT ![t] = [ ThreadNone EXCEPT !.pc = "start" ] ]
                           /\ sw_speak_thread' = t
                           /\ sw_speaking' = TRUE
                           /\ stop_mid' = "no"
                      ELSE /\ thr' = J.thr
                           /\ sw_speaking' = J.speaking
                           /\ UNCHANGED << sw_speak_thread, stop_mid >>
                   /\ speak_launched' = created
                   /\ speak_ret' = module_speak_result(S2.engine, created, bytes)
    /\ fg_pc' = "idle"
    /\ UNCHANGED << build, settingsVars, catVars, sw_cancel, n_speak, q_stop_requested,
                    init_ret >>

\* module_stop_590 stopping the engine as well.
module_stop_590_stop_engine ==
    /\ phase = "ready"
    /\ fg_pc = "module_stop_590"
    /\ q_stop_requested' = TRUE
    /\ SetSess(stop_engine(Sess))
    /\ fg_pc' = "idle"
    /\ UNCHANGED << phase, build, settingsVars, catVars, sw_cancel, speakVars, thr,
                    init_ret, stop_mid >>

\* module_stop, lines 586-589: sw_cancel is set when an engine is active.
\* The speak thread runs on between this and line 590.
module_stop_588 ==
    /\ Foreground
    /\ sw_cancel' = IF sw_engine # NULL THEN TRUE ELSE sw_cancel
    /\ stop_mid' = IF TaskRunning /\ stop_mid = "no" THEN "stopped" ELSE stop_mid
    /\ oplog' = << >>
    /\ fg_pc' = "module_stop_590"
    /\ UNCHANGED << phase, build, settingsVars, catVars, sw_engine, sw_engine_name, sw_voice_name,
                    sw_sample_rate, oldVars, live, max_live,
                    speakVars, thr, q_stop_requested, init_ret >>

\* module_stop, lines 590-591: module_speak_queue_stop and the return.
module_stop_590 ==
    /\ phase = "ready"
    /\ fg_pc = "module_stop_590"
    /\ q_stop_requested' = TRUE
    /\ fg_pc' = "idle"
    /\ UNCHANGED << phase, build, settingsVars, catVars, sessVars, sw_cancel, speakVars,
                    thr, init_ret, stop_mid >>

\* module_speak_queue_cancel, lines 600-605.
module_speak_queue_cancel ==
    /\ Foreground
    /\ sw_engine # NULL
    /\ ~sw_cancel
    /\ sw_cancel' = TRUE
    /\ oplog' = << >>
    /\ UNCHANGED << phase, build, settingsVars, catVars, sw_engine, sw_engine_name, sw_voice_name,
                    sw_sample_rate, oldVars, live, max_live,
                    speakVars, fg_pc, thr, q_stop_requested, init_ret, stop_mid >>

\* module_close, lines 622-623: stop_engine.  No thread is joined, so the
\* speak thread runs on between this and the rest of module_close.
module_close_623 ==
    /\ Foreground
    /\ SetSess(stop_engine(Sess))
    /\ fg_pc' = "module_close_624"
    /\ UNCHANGED << phase, build, settingsVars, catVars, sw_cancel, speakVars, thr,
                    q_stop_requested, init_ret, stop_mid >>

\* free_voice_list, lines 607-619: for the first descriptor of the list it
\* passes variant to g_free, which line 400 set to a string literal; the
\* allocator ends the process.  A list without descriptors is freed.
free_voice_list_killed(voice_list) ==
    voice_list # NULL /\ voice_list[1] # NULL

\* module_close, lines 624-631: the host queue is terminated and freed, the
\* catalog and the engine list are freed, and module_close returns.
module_close_624 ==
    /\ phase = "ready"
    /\ fg_pc = "module_close_624"
    /\ IF free_voice_list_killed(sw_voice_list)
       THEN /\ phase' = "crashed"
            /\ UNCHANGED << sw_voice_list, sw_engines, sw_num_engines, fg_pc >>
       ELSE /\ sw_voice_list' = NULL
            /\ sw_engines' = << >>
            /\ sw_num_engines' = 0
            /\ phase' = "closed"
            /\ fg_pc' = "idle"
    /\ UNCHANGED << build, settingsVars, prov, sw_num_voices, sessVars, sw_cancel,
                    speakVars, thr, q_stop_requested, init_ret, stop_mid >>

----------------------------------------------------------------------------
(* The speak thread: speak_wrapper, speak, and inside swSpeak the engine    *)
(* calling audio_callback.  No handler but module_speak waits for it: it    *)
(* runs on during and after module_stop and module_close, until the         *)
(* process ends.                                                            *)

\* The process is running: module_init returned OK and nothing has ended it.
ProcessRuns == phase \in { "ready", "closed" }

\* The message types speak hands to the engine, lines 485-523.
Synthesized(msgtype) == msgtype \in { "TEXT", "CHAR", "KEY" }

\* speak, lines 475-516, up to the call of swSpeak or swSpeakChar.  With
\* bytes = 0 no buffer is allocated and line 482 writes through NULL.  When
\* module_close has stopped the engine in the meantime, the library is
\* handed the NULL handle, which it dereferences.
speak_enter(t) ==
    /\ ProcessRuns
    /\ thr[t].pc = "start"
    /\ IF sw_speak_bytes = 0
       THEN /\ phase' = "crashed"
            /\ thr' = [ thr EXCEPT ![t].pc = "crashed" ]
            /\ UNCHANGED sw_cancel
       ELSE IF Synthesized(sw_speak_msgtype) /\ sw_engine = NULL
       THEN /\ sw_cancel' = FALSE
            /\ phase' = "crashed"
            /\ thr' = [ thr EXCEPT ![t].pc = "crashed" ]
       ELSE IF Synthesized(sw_speak_msgtype)
       THEN /\ sw_cancel' = FALSE
            /\ thr' = [ thr EXCEPT ![t].pc = "swSpeak" ]
            /\ UNCHANGED phase
       ELSE /\ thr' = [ thr EXCEPT ![t].pc = "exited" ]
            /\ UNCHANGED << phase, sw_cancel >>
    /\ UNCHANGED << build, settingsVars, catVars, sessVars, speakVars, fg_pc, q_stop_requested,
                    init_ret, stop_mid >>

\* Numbers of samples the engine passes: 0 ends the stream.
SampleCounts == { 0, 160 }

\* The engine, inside swSpeak, calls audio_callback(engine, samples,
\* num_samples, cancel, NULL).
engine_calls_back(t, num_samples, cancel) ==
    /\ ProcessRuns
    /\ thr[t].pc = "swSpeak"
    /\ num_samples > 0 => thr[t].chunks < MaxChunks
    /\ thr' = [ thr EXCEPT
                  ![t].pc = "line116",
                  ![t].chunks = IF num_samples > 0 THEN @ + 1 ELSE @,
                  ![t].cb = [ CbNone EXCEPT !.num = num_samples,
                                            !.cancel = cancel,
                                            !.after_stop = (stop_mid # "no"),
                                            !.first_after = (stop_mid = "stopped") ] ]
    /\ stop_mid' = IF stop_mid = "stopped" THEN "seen" ELSE stop_mid
    /\ UNCHANGED << phase, build, settingsVars, catVars, sessVars, sw_cancel, speakVars, fg_pc,
                    q_stop_requested, init_ret >>

\* Where the thread is once audio_callback has returned ret: the engine
\* makes no further call after a true return or after the end of the
\* stream, swSpeak returns and the thread leaves speak_wrapper.
AfterCallback(ret, num_samples) ==
    IF ret \/ num_samples = 0 THEN "exited" ELSE "swSpeak"

\* cancel_requested ignoring the cancel argument of the engine.
cancel_requested_flag_only(cancel, flag) == flag

\* audio_callback, line 116: the test cancel || sw_cancel.
cancel_requested(cancel, flag) == cancel \/ flag

\* audio_callback, lines 116-120.
audio_callback_116(t) ==
    /\ ProcessRuns
    /\ thr[t].pc = "line116"
    /\ IF cancel_requested(thr[t].cb.cancel, sw_cancel)
       THEN /\ q_stop_requested' = TRUE
            /\ thr' = [ thr EXCEPT ![t].cb.saw_cancel = sw_cancel,
                                   ![t].cb.q = Append(@, "stop"),
                                   ![t].cb.ret = TRUE,
                                   ![t].cb.done = TRUE,
                                   ![t].pc = AfterCallback(TRUE, thr[t].cb.num) ]
       ELSE /\ thr' = [ thr EXCEPT ![t].pc = "line121" ]
            /\ UNCHANGED q_stop_requested
    /\ UNCHANGED << phase, build, settingsVars, catVars, sessVars, sw_cancel, speakVars, fg_pc,
                    init_ret, stop_mid >>

\* audio_callback, lines 121-125.
audio_callback_121(t) ==
    /\ ProcessRuns
    /\ thr[t].pc = "line121"
    /\ IF q_stop_requested
       THEN /\ sw_cancel' = TRUE
            /\ thr' = [ thr EXCEPT ![t].cb.saw_stop = TRUE,
                                   ![t].cb.set_cancel = TRUE,
                                   ![t].cb.ret = TRUE,
                                   ![t].cb.done = TRUE,
                                   ![t].pc = AfterCallback(TRUE, thr[t].cb.num) ]
       ELSE /\ thr' = [ thr EXCEPT ![t].pc = "line126" ]
            /\ UNCHANGED sw_cancel
    /\ UNCHANGED << phase, build, settingsVars, catVars, sessVars, speakVars, fg_pc,
                    q_stop_requested, init_ret, stop_mid >>

\* end_of_stream without module_speak_queue_add_end.
end_of_stream_no_marker(cb) ==
    [ cb EXCEPT !.q = @ \o << "before_play" >>, !.ret = FALSE, !.done = TRUE ]

\* audio_callback, lines 126-132: what the end of the stream does to the
\* invocation record.
end_of_stream(cb) ==
    [ cb EXCEPT !.q = @ \o << "before_play", "add_end" >>, !.ret = FALSE, !.done = TRUE ]

\* offer_audio offering a rejected chunk a second time.
offer_audio_again(cb, sample_rate, accepted) ==
    LET track == [ bits |-> 16, num_channels |-> 1, sample_rate |-> sample_rate,
                   num_samples |-> cb.num ]
        c1 == [ cb EXCEPT !.q = @ \o << "before_play", "add_audio" >>,
                          !.track = Some(track) ]
    IN  IF accepted THEN [ c1 EXCEPT !.frames = @ + 1 ]
        ELSE [ c1 EXCEPT !.q = @ \o << "add_audio" >>, !.ret = TRUE, !.done = TRUE ]

\* audio_callback, lines 133-146: the chunk is offered to the host queue,
\* which accepts it or not.
offer_audio(cb, sample_rate, accepted) ==
    LET track == [ bits |-> 16, num_channels |-> 1, sample_rate |-> sample_rate,
                   num_samples |-> cb.num ]
        c1 == [ cb EXCEPT !.q = @ \o << "before_play", "add_audio" >>,
                          !.track = Some(track) ]
    IN  IF accepted THEN [ c1 EXCEPT !.frames = @ + 1 ]
        ELSE [ c1 EXCEPT !.ret = TRUE, !.done = TRUE ]

\* audio_callback, lines 126-147.
audio_callback_126(t, accepted) ==
    /\ ProcessRuns
    /\ thr[t].pc = "line126"
    /\ LET cb == thr[t].cb
           c1 == IF cb.num = 0 THEN end_of_stream(cb)
                 ELSE offer_audio(cb, sw_sample_rate, accepted)
       IN  thr' = [ thr EXCEPT ![t].cb = c1,
                               ![t].pc = IF c1.done THEN AfterCallback(c1.ret, cb.num)
                                         ELSE "line148" ]
    /\ UNCHANGED << phase, build, settingsVars, catVars, sessVars, sw_cancel, speakVars, fg_pc,
                    q_stop_requested, init_ret, stop_mid >>

\* audio_callback, line 148: return sw_cancel.
audio_callback_148(t) ==
    /\ ProcessRuns
    /\ thr[t].pc = "line148"
    /\ thr' = [ thr EXCEPT ![t].cb.ret = sw_cancel,
                           ![t].cb.done = TRUE,
                           ![t].pc = AfterCallback(sw_cancel, thr[t].cb.num) ]
    /\ UNCHANGED << phase, build, settingsVars, catVars, sessVars, sw_cancel, speakVars, fg_pc,
                    q_stop_requested, init_ret, stop_mid >>

\* The host queue's playback thread takes up a pending stop request.
queue_handles_stop ==
    /\ phase = "ready"
    /\ q_stop_requested
    /\ q_stop_requested' = FALSE
    /\ UNCHANGED << phase, build, settingsVars, catVars, sessVars, sw_cancel, speakVars, fg_pc,
                    thr, init_ret, stop_mid >>

Next ==
    \/ module_load(FewReports, { "rhs_first" })
    \/ module_init
    \/ module_speak_begin({ DefaultSettings })
    \/ \E requested \in VoiceRequests, ok \in SUBSET Providers :
           module_speak_rest(requested, ok)
    \/ module_stop_588
    \/ module_stop_590
    \/ module_speak_queue_cancel
    \/ module_close_623
    \/ module_close_624
    \/ \E t \in Threads : speak_enter(t)
    \/ \E t \in Threads, num_samples \in SampleCounts, cancel \in BOOLEAN :
           engine_calls_back(t, num_samples, cancel)
    \/ \E t \in Threads : audio_callback_116(t)
    \/ \E t \in Threads : audio_callback_121(t)
    \/ \E t \in Threads, accepted \in BOOLEAN : audio_callback_126(t, accepted)
    \/ \E t \in Threads : audio_callback_148(t)
    \/ queue_handles_stop

Spec == Init /\ [][Next]_vars

----------------------------------------------------------------------------
(* Selecting the voices of the catalog: module_load, module_init,           *)
(* module_speak and module_close with the speak thread, on voices whose     *)
(* language has a region and voices whose language has none, under both     *)
(* builds.  Within an engine the voice names are distinct.  The host calls  *)
(* neither module_stop nor module_speak_queue_cancel, and the engine does   *)
(* not ask for cancellation.                                                *)

SelectVoices ==
    { [ p \in Providers |-> IF p = espeak THEN << a >> ELSE << b >> ] :
          a \in { id_A_fr, id_A_en_us }, b \in { id_B_c_en, id_B_c_en_gb } }

SelectReports ==
    [ engines : { << espeak >>, << pico, espeak >> },
      ok      : { Providers },
      voices  : SelectVoices ]

NextSelect ==
    \/ module_load(SelectReports, Builds)
    \/ module_init
    \/ module_speak_begin(HostSettings)
    \/ \E requested \in VoiceRequests, ok \in SUBSET Providers :
           module_speak_rest(requested, ok)
    \/ module_close_623
    \/ module_close_624
    \/ \E t \in Threads : speak_enter(t)
    \/ \E t \in Threads, num_samples \in SampleCounts :
           engine_calls_back(t, num_samples, FALSE)
    \/ \E t \in Threads : audio_callback_116(t)
    \/ \E t \in Threads : audio_callback_121(t)
    \/ \E t \in Threads, accepted \in BOOLEAN : audio_callback_126(t, accepted)
    \/ \E t \in Threads : audio_callback_148(t)

SpecSelect == Init /\ [][NextSelect]_vars

----------------------------------------------------------------------------
(* Claims about the voice catalog, checked under SpecCatalog. *)

Loaded == phase \in { "loaded", "ready", "failed" }

Report == Deref(prov)

\* The name part of a voice id: what precedes its last comma.
NamePart(voice_id) == SubSeq(voice_id, 1, strrchr(voice_id, ",") - 1)

\* The voices engine number i of the report contributes.
Contributed(r, i) ==
    IF r.engines[i] \in r.ok THEN r.voices[r.engines[i]] ELSE << >>

\* The number of voices contributed by the engines before number i.
RECURSIVE VoicesBefore(_, _)
VoicesBefore(r, i) ==
    IF i <= 1 THEN 0
    ELSE VoicesBefore(r, i - 1) + Len(Contributed(r, i - 1))

IdsDistinct(r) ==
    \A p \in Providers : \A i, j \in 1..Len(r.voices[p]) :
        i # j => r.voices[p][i] # r.voices[p][j]

NamesDistinct(r) ==
    \A p \in Providers : \A i, j \in 1..Len(r.voices[p]) :
        i # j => NamePart(r.voices[p][i]) # NamePart(r.voices[p][j])

CompositeNamesDistinct ==
    \A i, j \in 1..NumDescriptors(sw_voice_list) :
        i # j => Deref(sw_voice_list[i]).name # Deref(sw_voice_list[j]).name

\* C5: when the catalog build yields no voice, module_init returns the
\* fatal-error result.
C5_ZeroVoicesIsFatal ==
    (phase \in { "ready", "failed" } /\ NumDescriptors(sw_voice_list) = 0)
        => init_ret = FATAL_ERROR

\* C8 as stated: when the voice ids each engine lists are pairwise distinct,
\* no two descriptors of the catalog share a composite name.
C8_DistinctIdsGiveDistinctNames ==
    (Loaded /\ IdsDistinct(Report)) => CompositeNamesDistinct

\* C8 amended: when the voice names (the ids without their language) each
\* engine lists are pairwise distinct, no two descriptors of the catalog
\* share a composite name.
C8_DistinctVoiceNamesGiveDistinctNames ==
    (Loaded /\ NamesDistinct(Report)) => CompositeNamesDistinct

\* Two engines listing voices of distinct names, one name listed by both.
C8_Witness ==
    /\ Loaded
    /\ NamesDistinct(Report)
    /\ NumDescriptors(sw_voice_list) = 4
    /\ \E i, j \in 1..Len(Report.voices[espeak]) :
           NamePart(Report.voices[espeak][i]) = NamePart(Report.voices[pico][j])

\* C9: the catalog is the concatenation, in discovery order, of the voices
\* of each engine that started, in the order the engine listed them, then
\* one NULL end marker; an engine that does not start contributes nothing
\* and the engines after it are still listed.
C9_CatalogIsConcatenation ==
    Loaded =>
        LET r == Report
            total == VoicesBefore(r, Len(r.engines) + 1)
        IN  /\ Len(sw_voice_list) = total + 1
            /\ sw_voice_list[total + 1] = NULL
            /\ \A i \in 1..Len(r.engines) : \A j \in 1..Len(Contributed(r, i)) :
                 LET d == sw_voice_list[VoicesBefore(r, i) + j]
                 IN  /\ d # NULL
                     /\ Deref(d).name =
                            r.engines[i] \o << " " >> \o NamePart(r.voices[r.engines[i]][j])

\* The first engine fails to start, the second lists two voices.
C9_Witness ==
    /\ Loaded
    /\ Len(Report.engines) = 2
    /\ Report.engines[1] \notin Report.ok
    /\ Report.engines[2] \in Report.ok
    /\ Len(Report.voices[Report.engines[2]]) = 2
    /\ Len(Report.voices[Report.engines[1]]) = 1
    /\ NumDescriptors(sw_voice_list) = 2

----------------------------------------------------------------------------
(* Claims about the speak thread, the session and the audio callback,       *)
(* checked under Spec.                                                      *)

\* How often the queue call c occurs in the calls q of an invocation.
Count(q, c) == Cardinality({ i \in 1..Len(q) : q[i] = c })

\* C1: at most one speak thread exists at a time, so the swSpeak and
\* swSpeakChar calls of two threads never overlap.
C1_OneSpeakTask == Cardinality({ t \in Threads : Running(t) }) <= 1

\* A second thread synthesizes after the first was joined.
C1_Witness ==
    /\ thr[1].pc = "joined"
    /\ thr[2].pc = "line126"
    /\ oplog # << >>

\* C2: once module_stop was called during a running task, the next
\* audio_callback invocation returns true and neither it nor a later
\* invocation of that task adds an audio frame to the host queue.
C2_StopCancelsNextCallback ==
    \A t \in Threads :
        /\ thr[t].cb.after_stop => thr[t].cb.frames = 0
        /\ (thr[t].cb.done /\ thr[t].cb.first_after) => thr[t].cb.ret

\* C3: at most one engine handle is live at any time, during the catalog
\* build and across the switches of set_synthesis_voice.
C3_OneLiveHandle == live <= 1 /\ max_live <= 1

\* Both engines were started for listing, and the last handler stopped the
\* active engine and started another one.
C3_Witness ==
    /\ phase = "ready"
    /\ Len(Deref(prov).engines) = 2
    /\ sw_engine # NULL
    /\ \E i, j \in 1..Len(oplog) :
         /\ i < j
         /\ oplog[i].op = "swStop"
         /\ oplog[j].op = "swStart" /\ oplog[j].ok

\* C4: when module_close has released the engine, and when it has
\* returned, no speak thread is running.
C4_CloseWaitsForTask ==
    (ProcessRuns /\ (fg_pc = "module_close_624" \/ phase = "closed")) => ~TaskRunning

\* An invocation that found no cancellation: the engine did not ask for
\* it, sw_cancel was false and the queue reported no stop request.
NoCancellation(cb) == ~cb.cancel /\ ~cb.saw_cancel /\ ~cb.saw_stop

\* C6: an invocation with num_samples = 0 that finds no cancellation calls
\* before_play, then add_end once, adds no audio frame and returns false.
C6_EndOfStream ==
    \A t \in Threads :
        LET cb == thr[t].cb
        IN  (cb.done /\ cb.num = 0 /\ NoCancellation(cb))
                => /\ cb.q = << "before_play", "add_end" >>
                   /\ cb.frames = 0
                   /\ cb.ret = FALSE

\* The stream ends after a chunk was played.
C6_Witness ==
    \E t \in Threads :
        /\ thr[t].cb.done /\ thr[t].cb.num = 0 /\ NoCancellation(thr[t].cb)
        /\ thr[t].chunks = 1
        /\ thr[t].pc = "exited"

\* C7 as stated: an invocation that finds the cancel argument set, or
\* sw_cancel set, or a stop request pending in the queue, forwards a stop
\* to the queue, returns true and adds neither a frame nor an end marker.
C7_AnyCancellationForwardsStop ==
    \A t \in Threads :
        LET cb == thr[t].cb
        IN  (cb.done /\ ~NoCancellation(cb))
                => /\ Count(cb.q, "stop") = 1
                   /\ cb.ret
                   /\ cb.frames = 0
                   /\ Count(cb.q, "add_audio") = 0
                   /\ Count(cb.q, "add_end") = 0

\* C7 amended: an invocation that finds the cancel argument or sw_cancel set
\* forwards a stop to the queue and returns true; one that finds neither
\* set but a stop request pending sets sw_cancel and returns true without
\* calling the queue; in both cases no frame and no end marker is added.
C7_CancellationReturnsTrue ==
    \A t \in Threads :
        LET cb == thr[t].cb
        IN  /\ (cb.done /\ (cb.cancel \/ cb.saw_cancel))
                => cb.q = << "stop" >> /\ cb.ret /\ cb.frames = 0
            /\ (cb.done /\ ~cb.cancel /\ ~cb.saw_cancel /\ cb.saw_stop)
                => cb.q = << >> /\ cb.set_cancel /\ cb.ret /\ cb.frames = 0

\* The queue reported a stop request to an invocation that found neither
\* flag set, after another invocation was cancelled by the engine.
C7_Witness ==
    \E t, u \in Threads :
        /\ thr[t].cb.done /\ thr[t].cb.saw_stop /\ ~thr[t].cb.cancel
        /\ thr[t].cb.ret
        /\ thr[u].pc = "joined"

\* C10: module_speak returns the failure value exactly when it created no
\* thread.
C10_FailureIffNoTask ==
    (phase = "ready" /\ fg_pc = "idle" /\ n_speak > 0)
        => ((speak_ret = C_FALSE) <=> ~speak_launched)

----------------------------------------------------------------------------
(* Claims about the handlers of the foreground, checked under Spec.         *)

\* The session is idle: no handle, no engine name, sample rate 0.
Idle == sw_engine = NULL /\ sw_engine_name = NULL /\ sw_sample_rate = 0

\* The calls by which module_speak applies the settings, lines 565-572.
ParameterCalls == { "swSetSpeed", "swSetPitch", "swSetPunctuation" }

\* What the last handler logged after its entry of set_default_engine at
\* position i of oplog and before it applied the settings.
AfterFallbackEntry(i) ==
    SelectSeq(SubSeq(oplog, i + 1, Len(oplog)), LAMBDA e : e.op \notin ParameterCalls)

\* The calls tail are attempts to start the engines of names in order, up
\* to the first that started or, none starting, through all of them; the
\* session is then on the engine that started or, none starting, idle with
\* module_speak having returned FALSE and no thread created.
FallbackOutcome(tail, names) ==
    /\ Len(tail) <= Len(names)
    /\ \A j \in 1..Len(tail) :
         /\ tail[j].op = "swStart"
         /\ tail[j].arg = names[j]
         /\ j < Len(tail) => ~tail[j].ok
    /\ IF tail # << >> /\ tail[Len(tail)].ok
       THEN /\ sw_engine = Some(names[Len(tail)])
            /\ sw_engine_name = Some(names[Len(tail)])
       ELSE /\ Len(tail) = Len(names)
            /\ Idle
            /\ fg_pc = "idle" => (speak_ret = C_FALSE /\ ~speak_launched /\ ~TaskRunning)

\* C11 as stated: a module_speak that finds no engine attempts "espeak",
\* then the engines of sw_engines in order, up to the first that starts;
\* when none starts the session stays idle, module_speak returns FALSE and
\* no thread is created.
C11_FallbackTriesDefaultThenList ==
    phase = "ready" =>
        \A i \in 1..Len(oplog) :
            oplog[i].op = "set_default_engine"
                => FallbackOutcome(AfterFallbackEntry(i), << espeak >> \o sw_engines)

\* What set_default_engine does: the same when swListEngines reported at
\* least one engine; when it reported none (line 344), no engine is
\* attempted at all.
FallbackWhenEnginesListed ==
    phase = "ready" =>
        \A i \in 1..Len(oplog) :
            oplog[i].op = "set_default_engine"
                => FallbackOutcome(AfterFallbackEntry(i),
                                   IF sw_num_engines = 0 THEN << >>
                                   ELSE << espeak >> \o sw_engines)

\* The session globals.
Session == << sw_engine, sw_engine_name, sw_voice_name, sw_sample_rate >>

\* What every step of module_stop does: no thread is joined and the session
\* is as before.
StopEffect ==
    /\ thr' = thr /\ sw_speaking' = sw_speaking /\ sw_speak_thread' = sw_speak_thread
    /\ Session' = Session

\* C12 as stated: module_stop, whenever the host calls it, sets sw_cancel,
\* tells the host queue to stop, joins no thread and leaves the session as
\* it is.
C12_StopSetsFlagInAnyState ==
    [][ /\ module_stop_588 => (sw_cancel' /\ StopEffect)
        /\ module_stop_590 => (q_stop_requested' /\ StopEffect)
      ]_vars

\* C12 amended: module_stop sets sw_cancel when an engine is active and
\* leaves sw_cancel as it is when there is none; in both cases it tells the
\* host queue to stop, joins no thread and leaves the session as it is.
\* The host can call it while a speak thread runs, and it waits for
\* nothing before it returns.
C12_StopSetsFlagWhenActive ==
    [][ /\ (Foreground /\ TaskRunning) => ENABLED module_stop_588
        /\ (phase = "ready" /\ fg_pc = "module_stop_590") => ENABLED module_stop_590
        /\ module_stop_588 => /\ sw_engine # NULL => sw_cancel'
                              /\ sw_engine = NULL => sw_cancel' = sw_cancel
                              /\ StopEffect
        /\ module_stop_590 => /\ q_stop_requested'
                              /\ sw_cancel' = sw_cancel
                              /\ StopEffect
      ]_vars

\* module_stop was called while the thread was inside swSpeak with
\* sw_cancel clear.
C12_Witness ==
    /\ phase = "ready" /\ fg_pc = "idle"
    /\ stop_mid = "stopped"
    /\ sw_cancel /\ q_stop_requested
    /\ \E t \in Threads : thr[t].pc = "swSpeak"
    /\ sw_speaking /\ sw_engine # NULL

\* A step in which module_speak, past its join, runs to its return.
SpeakStep == fg_pc = "module_speak_join" /\ fg_pc' = "idle"

\* The step in which module_close runs stop_engine.
CloseStep == fg_pc = "idle" /\ fg_pc' = "module_close_624"

\* C14: the session globals are written only by steps of the foreground
\* handlers, and only when no speak thread is running.
C14_SessionWrittenWithoutTask ==
    [][ Session' # Session => ((SpeakStep \/ CloseStep) /\ ~TaskRunning) ]_vars

\* C15: sw_cancel is false when module_speak has created the thread, and
\* no step resets it to false while a speak thread is running.
C15_FlagClearedBeforeLaunch ==
    [][ /\ (SpeakStep /\ speak_launched') => ~sw_cancel'
        /\ (sw_cancel /\ ~sw_cancel') => ~TaskRunning
      ]_vars

\* C16: a module_speak that finds an engine active with a voice selected
\* and leaves that engine running with the same voice selected has made no
\* swSetVoice call.
C16_NoSetVoiceForSelectedVoice ==
    [][ ( /\ SpeakStep
          /\ sw_engine # NULL /\ sw_voice_name # NULL
          /\ sw_engine' = sw_engine /\ sw_voice_name' = sw_voice_name
          /\ \A i \in 1..Len(oplog') : oplog'[i].op # "swStop" )
            => \A i \in 1..Len(oplog') : oplog'[i].op # "swSetVoice"
      ]_vars

\* C17: with no engine handle the session has no engine name, no voice
\* selected and sample rate 0, and every swSetVoice call is made on an
\* engine handle.
C17_FailedStartLeavesIdle ==
    phase = "ready" =>
        /\ sw_engine = NULL => (Idle /\ sw_voice_name = NULL)
        /\ \A i \in 1..Len(oplog) : oplog[i].op = "swSetVoice" => oplog[i].eng # NULL

\* C18: a module_speak whose voice request is a name that no descriptor of
\* the catalog has leaves the session as it is and calls none of swStop,
\* swStart and swSetVoice for it: with an engine active it makes none of
\* these calls, with none its only calls are those of set_default_engine.
C18_UnknownVoiceChangesNothing ==
    [][ ( /\ SpeakStep
          /\ msg_settings_old_voice_name # Some(name_unknown)
          /\ msg_settings_old_voice_name' = Some(name_unknown) )
            => /\ Session' = Session
               /\ sw_engine # NULL =>
                      \A i \in 1..Len(oplog') : oplog'[i].op \in ParameterCalls
               /\ sw_engine = NULL =>
                      /\ oplog' # << >> /\ oplog'[1].op = "set_default_engine"
                      /\ \A i \in 2..Len(oplog') :
                             oplog'[i].op = "swStart" /\ ~oplog'[i].ok
      ]_vars

\* An unknown voice was requested with an engine active and a voice
\* selected.
C18_Witness ==
    /\ phase = "ready" /\ fg_pc = "idle"
    /\ msg_settings_old_voice_name = Some(name_unknown)
    /\ sw_engine # NULL /\ sw_voice_name # NULL
    /\ oplog = << >>
    /\ n_speak = 2

\* The handle is there exactly when the engine name is, and without a
\* handle the sample rate is 0.
SessionConsistent ==
    /\ sw_engine # NULL <=> sw_engine_name # NULL
    /\ sw_engine = NULL => sw_sample_rate = 0

\* C19: before and after every step the session has a handle exactly when
\* it has an engine name, and sample rate 0 when it has no handle; the
\* stop_engine of a module_close that finds no engine changes nothing and
\* calls nothing.
C19_HandleIffName ==
    [][ /\ SessionConsistent
        /\ SessionConsistent'
        /\ (CloseStep /\ sw_engine = NULL)
               => (Session' = Session /\ oplog' = << >> /\ live' = live)
      ]_vars

\* module_close found the session idle after a module_speak for which no
\* engine started.
C19_Witness ==
    /\ phase = "closed"
    /\ n_speak = 1
    /\ sw_engine = NULL /\ sw_engine_name = NULL /\ sw_sample_rate = 0
    /\ oplog = << >>
    /\ live = 0

\* C20: an invocation with num_samples > 0 that finds no cancellation calls
\* before_play and then add_audio once, with a track of 16 bits, one
\* channel, the sample rate the session has at that moment and num_samples
\* samples; when the queue rejects the track it returns true and offers
\* nothing more.
C20_OneFramePerChunk ==
    [][ \A t \in Threads :
          LET cb == thr'[t].cb
          IN  ( /\ cb.num > 0 /\ NoCancellation(cb)
                /\ cb.done \/ thr'[t].pc = "line148" )
                  => /\ cb.q = << "before_play", "add_audio" >>
                     /\ cb.track # NULL
                     /\ Deref(cb.track).bits = 16
                     /\ Deref(cb.track).num_channels = 1
                     /\ Deref(cb.track).num_samples = cb.num
                     /\ thr[t].pc = "line126" =>
                            Deref(cb.track).sample_rate = sw_sample_rate
                     /\ cb.frames <= 1
                     /\ cb.frames = 0 => (cb.done /\ cb.ret)
      ]_vars

\* The queue rejected the chunk.
C20_Witness ==
    \E t \in Threads :
        /\ thr[t].cb.done /\ thr[t].cb.num > 0 /\ NoCancellation(thr[t].cb)
        /\ thr[t].cb.frames = 0
        /\ thr[t].cb.ret
        /\ thr[t].pc = "exited"

----------------------------------------------------------------------------
(* The claim about the rate, checked under SpecRate. *)

\* The speed the last set_rate passed to swSetSpeed.
SpeedSet == oplog[1].arg

\* C13: the speed set_rate passes for a rate in [-100, 100] is 1 + rate/20
\* for rate >= 0 and 1/(1 - rate/20) for rate < 0; it is 1 at 0, 6 at 100,
\* 1/6 at -100, and greater than the speed of every smaller rate, by more
\* than 1/1000 from one rate to the next.
C13_SpeedMonotonic ==
    (fg_pc = "line568" /\ sw_engine # NULL) =>
        /\ Len(oplog) = 1 /\ oplog[1].op = "swSetSpeed"
        /\ msg_settings_rate >= 0 =>
               SpeedSet.num * 20 = SpeedSet.den * (20 + msg_settings_rate)
        /\ msg_settings_rate < 0 =>
               SpeedSet.num * (20 - msg_settings_rate) = SpeedSet.den * 20
        /\ msg_settings_rate = 0 => SpeedSet = [ num |-> 1, den |-> 1 ]
        /\ msg_settings_rate = MaxRate => SpeedSet = [ num |-> 6, den |-> 1 ]
        /\ msg_settings_rate = MinRate => SpeedSet = [ num |-> 1, den |-> 6 ]
        /\ \A r \in Rates : r < msg_settings_rate => Less(speed(r), SpeedSet)
        /\ msg_settings_rate > MinRate =>
               LET below == speed(msg_settings_rate - 1)
               IN  (SpeedSet.num * below.den - below.num * SpeedSet.den) * 1000
                       > SpeedSet.den * below.den

\* The slowest rate was set on an active engine.
C13_Witness ==
    /\ fg_pc = "line568"
    /\ msg_settings_rate = MinRate
    /\ sw_engine # NULL
    /\ oplog # << >> /\ oplog[1].arg = [ num |-> 1, den |-> 6 ]

----------------------------------------------------------------------------
(* The claim about selecting a listed voice, checked under SpecSelect. *)

\* The name under which the catalog offers voice_id of engine_name.
CompositeName(engine_name, voice_id) == engine_name \o << " " >> \o NamePart(voice_id)

\* The swSetVoice calls among the calls of log.
SetVoiceCalls(log) == SelectSeq(log, LAMBDA e : e.op = "swSetVoice")

\* C21: for every voice id v that an engine P listed during module_load, a
\* module_speak that applies the name "P <name of v>" while P starts leaves
\* P active and has made one swSetVoice call, on P, with exactly v.
C21_VoiceNameRoundTrips ==
    [][ SpeakStep =>
          \A i \in 1..Len(sw_engines) :
            \A j \in 1..Len(Contributed(Report, i)) :
              \A requested \in { Some(CompositeName(sw_engines[i], Contributed(Report, i)[j])) } :
                ( /\ msg_settings_old_voice_name # requested
                  /\ \E ok \in { x \in SUBSET Providers : sw_engines[i] \in x } :
                         module_speak_rest(requested, ok) )
                  => /\ sw_engine' = Some(sw_engines[i])
                     /\ SetVoiceCalls(oplog')
                            = << [ op |-> "swSetVoice", eng |-> Some(sw_engines[i]),
                                   arg |-> Contributed(Report, i)[j], ok |-> TRUE ] >>
      ]_vars

\* What holds instead: the round trip of C21 for the voices whose language
\* has no '-'.
RoundTripWithoutRegion ==
    [][ SpeakStep =>
          \A i \in 1..Len(sw_engines) :
            \A j \in 1..Len(Contributed(Report, i)) :
              \A requested \in { Some(CompositeName(sw_engines[i], Contributed(Report, i)[j])) } :
                ( /\ msg_settings_old_voice_name # requested
                  /\ strchr(Contributed(Report, i)[j], "-") = 0
                  /\ \E ok \in { x \in SUBSET Providers : sw_engines[i] \in x } :
                         module_speak_rest(requested, ok) )
                  => /\ sw_engine' = Some(sw_engines[i])
                     /\ SetVoiceCalls(oplog')
                            = << [ op |-> "swSetVoice", eng |-> Some(sw_engines[i]),
                                   arg |-> Contributed(Report, i)[j], ok |-> TRUE ] >>
      ]_vars

====
